---------------------------- MODULE Spec2Model ----------------------------
(***************************************************************************)
(* Model of the expertise pipeline of CTKMcCabe/Turbotise.                 *)
(*                                                                         *)
(* Three producers write to an sqlite table "expertise_log":               *)
(*   search.py          watch mode, legacy table, five-field prompt        *)
(*   engine.py          watch mode, legacy table, three-field prompt       *)
(*   commit_analyzer.py one-shot commit hook, detailed table               *)
(*                                                                         *)
(* Text is a sequence of tokens.  A token is a TLA+ string standing for    *)
(* one or more characters that the code never looks inside; the JSON       *)
(* punctuation, the quote and the backslash are tokens of their own.       *)
(***************************************************************************)
EXTENDS Integers, Sequences, FiniteSets, TLC

(***************************************************************************)
(* Bounds of the model.                                                    *)
(***************************************************************************)
\* Process starts plus delivered filesystem events in one behaviour.
MaxSteps == 3
\* Concurrent one-shot invocations (commit hooks).
MaxHooks == 2

(***************************************************************************)
(* JSON values, as Python's json module sees them.  Every value is a       *)
(* record [t, v]: v is the token sequence of a string, the items of a      *)
(* list, the <<key, value>> pairs of an object, and empty for null.        *)
(***************************************************************************)
Q == "\""
BS == "\\"

Null == [t |-> "null", v |-> <<>>]
Str(cs) == [t |-> "str", v |-> cs]
List(items) == [t |-> "list", v |-> items]
Dict(pairs) == [t |-> "dict", v |-> pairs]

RECURSIVE Escape(_)
\* json.dumps escapes the quote and the backslash inside a string.
Escape(cs) ==
    IF cs = <<>> THEN <<>>
    ELSE (IF Head(cs) \in {Q, BS} THEN <<BS, Head(cs)>> ELSE <<Head(cs)>>)
         \o Escape(Tail(cs))

\* json.dumps of None or of a string.
DumpScalar(x) ==
    IF x.t = "null" THEN <<"null">> ELSE <<Q>> \o Escape(x.v) \o <<Q>>

RECURSIVE DumpItems(_)
\* json.dumps(list): items joined by ", ".
DumpItems(items) ==
    IF items = <<>> THEN <<>>
    ELSE DumpScalar(Head(items))
         \o (IF Len(items) > 1 THEN <<",", " ">> ELSE <<>>)
         \o DumpItems(Tail(items))

\* json.dumps of None, of a string or of a list of those.
DumpFlat(x) ==
    IF x.t = "list" THEN <<"[">> \o DumpItems(x.v) \o <<"]">>
    ELSE DumpScalar(x)

RECURSIVE DumpPairs(_)
\* json.dumps(dict): "key": value pairs joined by ", ".
DumpPairs(pairs) ==
    IF pairs = <<>> THEN <<>>
    ELSE <<Q>> \o Escape(Head(pairs)[1]) \o <<Q, ":", " ">>
         \o DumpFlat(Head(pairs)[2])
         \o (IF Len(pairs) > 1 THEN <<",", " ">> ELSE <<>>)
         \o DumpPairs(Tail(pairs))

\* json.dumps with the default separators, for the values of the model:
\* None, strings, lists of those, and objects whose values are such.
JsonDumps(x) ==
    IF x.t = "dict" THEN <<"{">> \o DumpPairs(x.v) \o <<"}">>
    ELSE DumpFlat(x)

\* The result of a failed parse (json.JSONDecodeError).
ParseFail == [ok |-> FALSE, val |-> Null, next |-> 0]
ParseOk(val, next) == [ok |-> TRUE, val |-> val, next |-> next]

RECURSIVE SkipWs(_, _)
SkipWs(s, i) == IF i <= Len(s) /\ s[i] = " " THEN SkipWs(s, i + 1) ELSE i

\* The backslashes that immediately precede position p, from lo on.
BackslashRun(s, lo, p) ==
    LET starts == {q \in lo..p : \A r \in q..(p - 1) : s[r] = BS}
    IN  p - (CHOOSE q \in starts : \A r \in starts : q <= r)

\* The token at p is taken literally: an odd run of backslashes precedes it.
Escaped(s, lo, p) ==
    p > lo /\ s[p - 1] = BS /\ BackslashRun(s, lo, p) % 2 = 1

\* A string whose first token after the opening quote is s[lo]: it ends at
\* the first quote that is not escaped; a backslash that is not escaped
\* itself escapes the quote or the backslash after it and is dropped.
ScanString(s, lo) ==
    LET closes == {p \in lo..Len(s) : s[p] = Q /\ ~Escaped(s, lo, p)}
        close == CHOOSE p \in closes : \A r \in closes : p <= r
        Escaping(p) == s[p] = BS /\ ~Escaped(s, lo, p)
        Kept(p) == ~Escaping(p)
        kept == SelectSeq([k \in 1..(close - lo) |-> lo + k - 1], Kept)
    IN  IF closes = {} THEN ParseFail
        ELSE IF \E p \in lo..(close - 1) :
                    Escaping(p) /\ s[p + 1] \notin {Q, BS}
        THEN ParseFail
        ELSE ParseOk(Str([k \in 1..Len(kept) |-> s[kept[k]]]), close + 1)

\* None or a string at s[j].
ParseScalar(s, j) ==
    IF j > Len(s) THEN ParseFail
    ELSE IF s[j] = "null" THEN ParseOk(Null, j + 1)
    ELSE IF s[j] = Q THEN ScanString(s, j + 1)
    ELSE ParseFail

RECURSIVE ParseItems(_, _, _)
\* After "[" or after a comma inside a list.
ParseItems(s, i, acc) ==
    LET j == SkipWs(s, i) IN
    IF j > Len(s) THEN ParseFail
    ELSE IF s[j] = "]" /\ acc = <<>> THEN ParseOk(List(acc), j + 1)
    ELSE LET r == ParseScalar(s, j) IN
         IF ~r.ok THEN ParseFail
         ELSE LET k == SkipWs(s, r.next) IN
              IF k > Len(s) THEN ParseFail
              ELSE IF s[k] = "," THEN ParseItems(s, k + 1, Append(acc, r.val))
              ELSE IF s[k] = "]" THEN ParseOk(List(Append(acc, r.val)), k + 1)
              ELSE ParseFail

\* None, a string or a list of those at s[j].
ParseFlat(s, j) ==
    IF j <= Len(s) /\ s[j] = "[" THEN ParseItems(s, j + 1, <<>>)
    ELSE ParseScalar(s, j)

RECURSIVE ParseMembers(_, _, _)
\* After "{" or after a comma inside an object.
ParseMembers(s, i, acc) ==
    LET j == SkipWs(s, i) IN
    IF j > Len(s) THEN ParseFail
    ELSE IF s[j] = "}" /\ acc = <<>> THEN ParseOk(Dict(acc), j + 1)
    ELSE IF s[j] # Q THEN ParseFail
    ELSE LET key == ScanString(s, j + 1) IN
         IF ~key.ok THEN ParseFail
         ELSE LET c == SkipWs(s, key.next) IN
              IF c > Len(s) \/ s[c] # ":" THEN ParseFail
              ELSE LET r == ParseFlat(s, SkipWs(s, c + 1)) IN
                   IF ~r.ok THEN ParseFail
                   ELSE LET k == SkipWs(s, r.next)
                            more == Append(acc, <<key.val.v, r.val>>) IN
                        IF k > Len(s) THEN ParseFail
                        ELSE IF s[k] = "," THEN ParseMembers(s, k + 1, more)
                        ELSE IF s[k] = "}" THEN ParseOk(Dict(more), k + 1)
                        ELSE ParseFail

\* A value of the model's JSON: None, a string, a list of those, or an
\* object whose values are such.
ParseValue(s, i) ==
    LET j == SkipWs(s, i) IN
    IF j <= Len(s) /\ s[j] = "{" THEN ParseMembers(s, j + 1, <<>>)
    ELSE ParseFlat(s, j)

\* json.loads: one value, nothing but whitespace after it.
JsonLoads(s) ==
    CHOOSE out \in {IF r.ok /\ SkipWs(s, r.next) = Len(s) + 1 THEN r
                    ELSE ParseFail : r \in {ParseValue(s, 1)}} : TRUE

(***************************************************************************)
(* Python helpers used by the producers.                                   *)
(***************************************************************************)
Whitespace == {" ", "\n"}

RECURSIVE LStrip(_)
LStrip(cs) ==
    IF cs # <<>> /\ Head(cs) \in Whitespace THEN LStrip(Tail(cs)) ELSE cs

RECURSIVE RStrip(_)
RStrip(cs) ==
    IF cs # <<>> /\ cs[Len(cs)] \in Whitespace
    THEN RStrip(SubSeq(cs, 1, Len(cs) - 1)) ELSE cs

NoStrip(cs) == cs

\* str.strip(): leading and trailing whitespace removed.
Strip(cs) == RStrip(LStrip(cs))

IsNotNone(x) == x.t # "null"

\* Truth value of a parsed JSON value: None, "", [] and {} are false.
Truthy(x) == x.t # "null" /\ Len(x.v) > 0

HasKey(d, k) == \E i \in 1..Len(d.v) : d.v[i][1] = k

\* dict.get(k, default) on an object; the last duplicate key wins.
Get(d, k, default) ==
    IF HasKey(d, k)
    THEN d.v[CHOOSE i \in 1..Len(d.v) :
                 /\ d.v[i][1] = k
                 /\ \A j \in (i + 1)..Len(d.v) : d.v[j][1] # k][2]
    ELSE default

\* The result of a call: exc = "none" and a value, or the exception raised.
Return(val) == [exc |-> "none", val |-> val]
Raise(exc) == [exc |-> exc, val |-> Null]

\* x + y of two parsed values: lists and strings concatenate, anything
\* else is a TypeError.
Plus(x, y) ==
    IF x.t = y.t /\ x.t \in {"list", "str"}
    THEN Return([t |-> x.t, v |-> x.v \o y.v])
    ELSE Raise("TypeError")

(***************************************************************************)
(* The analysis backend.  A reply is what requests.post sees: the status   *)
(* (or the transport failure) and, for a 2xx status, the envelope text.    *)
(***************************************************************************)
Producers == {"search", "engine", "commit"}
Watchers == {"search", "engine"}

\* requests.exceptions.RequestException and its subclasses.
RequestExceptions == {"ConnectionError", "Timeout", "HTTPError"}

\* What the try block of analyze_content_with_llm raises, or the value it
\* computes: requests.post, raise_for_status, then the two-layer parse
\* json.loads(response.json().get("response", "{}")).
BackendCall(reply) ==
    IF reply.status = "refused" THEN Raise("ConnectionError")
    ELSE IF reply.status = "timeout" THEN Raise("Timeout")
    ELSE IF reply.status # "200" THEN Raise("HTTPError")
    ELSE CHOOSE out \in
           {IF parsed.ok THEN Return(parsed.val) ELSE Raise("JSONDecodeError") :
              parsed \in
                {JsonLoads(text.v) :
                   text \in
                     {Get(envelope, <<"response">>, Str(<<"{", "}">>)) :
                        envelope \in {JsonLoads(reply.body).val}}}} : TRUE

\* The except clause of analyze_content_with_llm.
ClientCatches(exc) == exc \in RequestExceptions

\* analyze_content_with_llm: the parsed payload, None for a caught
\* exception, or the exception that escapes to the caller.
analyze_content_with_llm(reply) ==
    CHOOSE out \in {IF r.exc # "none" /\ ClientCatches(r.exc) THEN Return(Null)
                    ELSE r : r \in {BackendCall(reply)}} : TRUE

(***************************************************************************)
(* The log store: one sqlite file holds at most one table expertise_log.   *)
(***************************************************************************)
Schemas == {"legacy", "detailed"}

\* The table each producer's init_database creates.
SchemaOf(prog) == IF prog = "commit" THEN "detailed" ELSE "legacy"

Columns(schema) ==
    IF schema = "legacy"
    THEN {"user_id", "file_path", "technologies", "core_concepts", "summary"}
    ELSE IF schema = "detailed"
    THEN {"user_id", "repo_name", "commit_hash", "primary_technologies",
          "supporting_libraries", "key_patterns_and_concepts",
          "inferred_skills", "analysis_summary"}
    ELSE {}

NotNullColumns == {"user_id", "file_path"}

EmptyDb == [schema |-> "none", rows |-> <<>>, seq |-> 0]

StaleRowId(d) == IF d.seq = 0 THEN 1 ELSE d.seq

\* AUTOINCREMENT: one more than the largest id the table ever held.
NextRowId(d) == d.seq + 1

InitDropsRows(prog, d, fault) ==
    IF fault THEN [exc |-> "OperationalError", db |-> d]
    ELSE [exc |-> "none",
          db |-> [schema |-> SchemaOf(prog), rows |-> <<>>, seq |-> 0]]

\* init_database: CREATE TABLE IF NOT EXISTS, then commit.
init_database(prog, d, fault) ==
    IF fault THEN [exc |-> "OperationalError", db |-> d]
    ELSE [exc |-> "none",
          db |-> IF d.schema = "none"
                 THEN [d EXCEPT !.schema = SchemaOf(prog)]
                 ELSE d]

\* Parameters sqlite3 can bind: str and None.
Bindable(x) == x.t \in {"str", "null"}

InsertBurnsId(d, cols, src, by, fault) ==
    IF fault \/ d.schema = "none" \/ ~(DOMAIN cols \subseteq Columns(d.schema))
    THEN [exc |-> "OperationalError", db |-> [d EXCEPT !.seq = @ + 1]]
    ELSE [exc |-> "none",
          db |-> [d EXCEPT !.rows = Append(@, [id |-> NextRowId(d),
                                               cols |-> cols,
                                               src |-> src, by |-> by]),
                           !.seq = NextRowId(d)]]

InsertDedups(d, cols, src, by, fault) ==
    IF fault \/ d.schema = "none" \/ ~(DOMAIN cols \subseteq Columns(d.schema))
    THEN [exc |-> "OperationalError", db |-> d]
    ELSE IF \E i \in 1..Len(d.rows) : d.rows[i].cols = cols
    THEN [exc |-> "none", db |-> d]
    ELSE [exc |-> "none",
          db |-> [d EXCEPT !.rows = Append(@, [id |-> d.seq + 1,
                                               cols |-> cols,
                                               src |-> src, by |-> by]),
                           !.seq = d.seq + 1]]

InsertReplacesLast(d, cols, src, by, fault) ==
    IF fault \/ d.schema = "none" \/ ~(DOMAIN cols \subseteq Columns(d.schema))
    THEN [exc |-> "OperationalError", db |-> d]
    ELSE IF d.rows = <<>>
    THEN [exc |-> "none",
          db |-> [d EXCEPT !.rows = <<[id |-> 1, cols |-> cols,
                                       src |-> src, by |-> by]>>,
                           !.seq = 1]]
    ELSE [exc |-> "none",
          db |-> [d EXCEPT !.rows[Len(d.rows)] =
                              [id |-> d.seq, cols |-> cols,
                               src |-> src, by |-> by]]]

\* INSERT INTO expertise_log (...) VALUES (...), then commit.  A statement
\* that fails writes nothing.  src and by are history: the analysis that
\* was handed to save_expertise, and the producer that wrote the row.
SqlInsert(d, cols, src, by, fault) ==
    IF fault \/ d.schema = "none" \/ ~(DOMAIN cols \subseteq Columns(d.schema))
    THEN [exc |-> "OperationalError", db |-> d]
    ELSE IF \E c \in DOMAIN cols : ~Bindable(cols[c])
    THEN [exc |-> "ProgrammingError", db |-> d]
    ELSE IF \E c \in DOMAIN cols \cap NotNullColumns : cols[c].t = "null"
    THEN [exc |-> "IntegrityError", db |-> d]
    ELSE [exc |-> "none",
          db |-> [d EXCEPT !.rows = Append(@, [id |-> NextRowId(d),
                                               cols |-> cols,
                                               src |-> src, by |-> by]),
                           !.seq = NextRowId(d)]]

EmptyList == List(<<>>)
EmptyStr == Str(<<>>)
Key(name) == <<name>>

\* The VALUES tuple of commit_analyzer.py's save_expertise.
CommitParams(user, repo, analysis) ==
    IF analysis.t # "dict" THEN Raise("AttributeError")
    ELSE Return(
      [user_id |-> Str(user),
       repo_name |-> Str(repo),
       commit_hash |-> Str(<<"pre-commit-analysis">>),
       primary_technologies |->
           Str(JsonDumps(Get(analysis, Key("primary_technologies"), EmptyList))),
       supporting_libraries |->
           Str(JsonDumps(Get(analysis, Key("supporting_libraries"), EmptyList))),
       key_patterns_and_concepts |->
           Str(JsonDumps(Get(analysis, Key("key_patterns_and_concepts"), EmptyList))),
       inferred_skills |->
           Str(JsonDumps(Get(analysis, Key("inferred_skills"), EmptyList))),
       analysis_summary |-> Get(analysis, Key("analysis_summary"), EmptyStr)])

\* The VALUES tuple of search.py's save_expertise: the five fields are
\* folded into the three legacy columns.
SearchParams(user, path, analysis) ==
    IF analysis.t # "dict" THEN Raise("AttributeError")
    ELSE LET tech == Plus(Get(analysis, Key("primary_technologies"), EmptyList),
                          Get(analysis, Key("supporting_libraries"), EmptyList))
             conc == Plus(Get(analysis, Key("key_patterns_and_concepts"), EmptyList),
                          Get(analysis, Key("inferred_skills"), EmptyList))
         IN  IF tech.exc # "none" THEN Raise(tech.exc)
             ELSE IF conc.exc # "none" THEN Raise(conc.exc)
             ELSE Return(
               [user_id |-> Str(user),
                file_path |-> Str(path),
                technologies |-> Str(JsonDumps(tech.val)),
                core_concepts |-> Str(JsonDumps(conc.val)),
                summary |-> Get(analysis, Key("analysis_summary"), EmptyStr)])

\* The VALUES tuple of engine.py's save_expertise.
EngineParams(user, path, analysis) ==
    IF analysis.t # "dict" THEN Raise("AttributeError")
    ELSE Return(
      [user_id |-> Str(user),
       file_path |-> Str(path),
       technologies |->
           Str(JsonDumps(Get(analysis, Key("technologies"), EmptyList))),
       core_concepts |->
           Str(JsonDumps(Get(analysis, Key("core_concepts"), EmptyList))),
       summary |-> Get(analysis, Key("summary"), EmptyStr)])

\* save_expertise of producer prog on store d: [exc, db].
save_expertise(prog, d, user, ref, analysis, fault) ==
    LET params == CASE prog = "commit" -> CommitParams(user, ref, analysis)
                    [] prog = "search" -> SearchParams(user, ref, analysis)
                    [] prog = "engine" -> EngineParams(user, ref, analysis)
    IN  IF params.exc # "none" THEN [exc |-> params.exc, db |-> d]
        ELSE SqlInsert(d, params.val, analysis, prog, fault)

(***************************************************************************)
(* Inputs of the environment.                                              *)
(***************************************************************************)
Field(name, val) == <<Key(name), val>>
Word(tok) == Str(<<tok>>)

FiveField(pt, sl, kp, sk, sm) ==
    Dict(<<Field("primary_technologies", pt),
           Field("supporting_libraries", sl),
           Field("key_patterns_and_concepts", kp),
           Field("inferred_skills", sk),
           Field("analysis_summary", sm)>>)

\* The reply the prompt asks for (a function definition in Python).
PlainPayload ==
    FiveField(List(<<Word("Python")>>), EmptyList,
              List(<<Word("function definition")>>),
              List(<<Word("Python programming")>>),
              Word("Defines an empty function."))

\* Five fields whose strings hold quotes, backslashes and commas.
QuotedPayload ==
    FiveField(List(<<Str(<<"say ", Q, "hi", Q>>)>>),
              List(<<Word("requests"), Str(<<"C:", BS, "lib", ",", " ">>)>>),
              EmptyList, EmptyList, EmptyStr)

\* The three fields engine.py's prompt asks for.
LegacyPayload ==
    Dict(<<Field("technologies", List(<<Word("Python")>>)),
           Field("core_concepts", List(<<Word("web server")>>)),
           Field("summary", Word("Serves a page."))>>)

\* A backend that does not follow the prompt: null where a list belongs.
NullFieldPayload ==
    FiveField(Null, EmptyList, EmptyList, EmptyList, Word("Nothing found."))

Payloads == {PlainPayload, QuotedPayload, LegacyPayload, NullFieldPayload}

\* The text of the envelope's "response" field.
PayloadTexts ==
    {JsonDumps(a) : a \in Payloads}
    \cup {<<"{", "}">>, <<"null">>, <<"[", Q, "Python", Q, "]">>,
          <<"not", " ", "json">>}

Envelope(text) == JsonDumps(Dict(<<Field("response", Str(text))>>))

Replies ==
    {[status |-> st, body |-> <<>>] : st \in {"refused", "timeout", "500"}}
    \cup {[status |-> "200", body |-> Envelope(t)] : t \in PayloadTexts}
    \cup {[status |-> "200", body |-> <<"{", "}">>]}

\* analyze_content_with_llm on each reply of the model, computed once.
Analysis == [reply \in Replies |-> analyze_content_with_llm(reply)]

\* A filesystem notification: a directory, or a file with its base name and
\* what open() and read() give.
NoEvent == [isDir |-> FALSE, name |-> <<>>, readable |-> FALSE, text |-> <<>>]
FileNames == {<<"app", ".", "py">>, <<".", "env">>}
FileTexts == {<<>>, <<" ", "\n">>, <<"\n", "def foo(): pass", "\n">>}
Events ==
    {[isDir |-> TRUE, name |-> <<"src">>, readable |-> FALSE, text |-> <<>>]}
    \cup {[isDir |-> FALSE, name |-> n, readable |-> FALSE, text |-> <<>>] :
             n \in FileNames}
    \cup {[isDir |-> FALSE, name |-> n, readable |-> TRUE, text |-> t] :
             n \in FileNames, t \in FileTexts}

\* What git gives the commit hook: a failure of any of its commands, or the
\* staged diff and the commit message.  The pairs are the commit that is
\* analysed, the message that is empty or blank, the diff that is blank,
\* and nothing staged with no message.
NoGit == [ok |-> FALSE, diff |-> <<>>, message |-> <<>>]
GitTexts == {<<>>, <<" ", "\n">>, <<"fix parser", "\n">>}
GitPairs ==
    {<<d, m>> \in GitTexts \X GitTexts :
        \/ d = <<"fix parser", "\n">>
        \/ d = <<" ", "\n">> /\ m = <<"fix parser", "\n">>
        \/ d = <<>> /\ m = <<>>}
GitInfos ==
    {NoGit} \cup {[ok |-> TRUE, diff |-> p[1], message |-> p[2]] : p \in GitPairs}

User == <<"dev">>
Repo == <<"Turbotise">>

\* search.py and commit_analyzer.py open expertise.db next to the script;
\* engine.py opens expertise.db in the working directory, which may or may
\* not be the script's directory.
DbFiles == {"script_dir", "cwd"}
DbFilesOf(prog) == IF prog = "engine" THEN DbFiles ELSE {"script_dir"}

Hooks == 1..MaxHooks

(***************************************************************************)
(* State.                                                                  *)
(***************************************************************************)
VARIABLES
    db,       \* store file -> [schema, rows, seq]
    watch,    \* the watch-mode process and its last event
    hook,     \* the one-shot invocations
    steps,    \* process starts and delivered events so far
    appends   \* history: save_expertise calls that returned

vars == <<db, watch, hook, steps, appends>>

\* pc: "off", "idle" (waiting for an event), "busy" (analysis in flight),
\* "stopped" (ended by the interrupt), "crashed" (ended by an exception).
\* ev, status, calls, saves, appended, outcome and why describe the event
\* being handled or, when idle, the last event handled.  outcome is "skip",
\* "dropped" (the analysis was falsy; why is its type), "raised" (why is the
\* exception) or "saved".
WatchOff ==
    [prog |-> "none", file |-> "script_dir", pc |-> "off", stop |-> FALSE,
     hadRows |-> FALSE, ev |-> NoEvent, status |-> "none", calls |-> 0,
     saves |-> 0, appended |-> FALSE, outcome |-> "none", why |-> "none"]

\* pc: "idle" (not started), "busy" (analysis in flight), "exited".
HookIdle ==
    [pc |-> "idle", exit |-> -1, git |-> NoGit,
     status |-> "none", calls |-> 0, saves |-> 0, appended |-> FALSE,
     outcome |-> "none", why |-> "none"]

Init ==
    /\ db = [f \in DbFiles |-> EmptyDb]
    /\ watch = WatchOff
    /\ hook = [h \in Hooks |-> HookIdle]
    /\ steps = 0
    /\ appends = 0

(***************************************************************************)
(* Watch mode: search.py and engine.py.                                    *)
(***************************************************************************)
\* search.py returns early for a base name that starts with "."; engine.py
\* has no such test.
SkipsHidden(prog) == prog = "search"
Hidden(name) == name # <<>> /\ Head(name) = "."

\* "if content.strip()" and "if not diff.strip()".
Blank(text) == Strip(text) = <<>>

CatchesRequestErrorsOnly(exc) == exc \in RequestExceptions

\* The "except Exception" around the body of on_modified.
HandlerCatches(exc) == TRUE

\* The script's start: init_database, then the observer is started.
WatchStart(prog, file, fault) ==
    /\ steps < MaxSteps
    /\ watch.pc \in {"off", "stopped", "crashed"}
    /\ LET r == init_database(prog, db[file], fault) IN
       /\ db' = [db EXCEPT ![file] = r.db]
       /\ watch' = [WatchOff EXCEPT
                      !.prog = prog, !.file = file,
                      !.pc = IF r.exc = "none" THEN "idle" ELSE "crashed",
                      !.hadRows = r.exc = "none" /\ db[file].rows # <<>>,
                      !.why = r.exc]
    /\ steps' = steps + 1
    /\ UNCHANGED <<hook, appends>>

\* on_modified up to the call of analyze_content_with_llm: the skips and the
\* file read end the handler at once, anything else leaves the analysis in
\* flight.
OnModifiedBegin(ev) ==
    /\ steps < MaxSteps
    /\ watch.pc = "idle"
    /\ ~watch.stop
    /\ LET fresh == [watch EXCEPT !.ev = ev, !.status = "none", !.calls = 0,
                                  !.saves = 0, !.appended = FALSE,
                                  !.outcome = "none", !.why = "none"]
       IN  watch' =
             IF ev.isDir
             THEN [fresh EXCEPT !.outcome = "skip", !.why = "directory"]
             ELSE IF SkipsHidden(watch.prog) /\ Hidden(ev.name)
             THEN [fresh EXCEPT !.outcome = "skip", !.why = "hidden"]
             ELSE IF ~ev.readable
             THEN [fresh EXCEPT
                     !.outcome = "raised", !.why = "OSError(open)",
                     !.pc = IF HandlerCatches("OSError") THEN "idle"
                            ELSE "crashed"]
             ELSE IF Blank(ev.text)
             THEN [fresh EXCEPT !.outcome = "skip", !.why = "empty"]
             ELSE [fresh EXCEPT !.pc = "busy", !.calls = 1]
    /\ steps' = steps + 1
    /\ UNCHANGED <<db, hook, appends>>

\* The watch record when the handler ends: it returns, or an exception
\* that nothing catches ends the observer thread.
WatchEnded(reply, outcome, why) ==
    [watch EXCEPT !.status = reply.status, !.outcome = outcome, !.why = why,
                  !.pc = IF outcome # "raised" \/ HandlerCatches(why)
                         THEN "idle" ELSE "crashed"]

\* The rest of on_modified, from the return of analyze_content_with_llm.
OnModifiedEnd(reply, login, fault) ==
    /\ watch.pc = "busy"
    /\ \E a \in {Analysis[reply]} :
         IF a.exc # "none"
         THEN /\ watch' = WatchEnded(reply, "raised", a.exc)
              /\ UNCHANGED <<db, appends>>
         ELSE IF ~Truthy(a.val)
         THEN /\ watch' = WatchEnded(reply, "dropped", a.val.t)
              /\ UNCHANGED <<db, appends>>
         ELSE IF a.val.t # "dict"
         THEN /\ watch' = WatchEnded(reply, "raised", "AttributeError")
              /\ UNCHANGED <<db, appends>>
         ELSE IF ~login
         THEN /\ watch' = WatchEnded(reply, "raised", "OSError(getlogin)")
              /\ UNCHANGED <<db, appends>>
         ELSE \E s \in {save_expertise(watch.prog, db[watch.file], User,
                                      watch.ev.name, a.val, fault)} :
                /\ db' = [db EXCEPT ![watch.file] = s.db]
                /\ IF s.exc # "none"
                   THEN /\ watch' = [WatchEnded(reply, "raised", s.exc)
                                       EXCEPT !.saves = 1]
                        /\ UNCHANGED appends
                   ELSE /\ watch' = [WatchEnded(reply, "saved", "none")
                                       EXCEPT !.saves = 1, !.appended = TRUE]
                        /\ appends' = appends + 1
    /\ UNCHANGED <<hook, steps>>

\* KeyboardInterrupt in the main thread: observer.stop().
Interrupt ==
    /\ watch.pc \in {"idle", "busy"}
    /\ ~watch.stop
    /\ watch' = [watch EXCEPT !.stop = TRUE]
    /\ UNCHANGED <<db, hook, steps, appends>>

\* observer.join() returns once the observer thread has left its handler.
WatchExit ==
    /\ watch.pc = "idle"
    /\ watch.stop
    /\ watch' = [watch EXCEPT !.pc = "stopped"]
    /\ UNCHANGED <<db, hook, steps, appends>>

(***************************************************************************)
(* One-shot mode: commit_analyzer.py.                                      *)
(***************************************************************************)
\* get_git_info: four strings, or four None when anything fails.
get_git_info(git) ==
    IF git.ok THEN [diff |-> Str(git.diff), message |-> Str(git.message)]
    ELSE [diff |-> Null, message |-> Null]

SkipCommitBoth(diff, message) == Blank(diff.v) /\ Blank(message.v)

\* "if not diff.strip() or not commit_message.strip()".
SkipCommit(diff, message) == Blank(diff.v) \/ Blank(message.v)

\* An exception nothing catches ends the interpreter with status 1.
UncaughtExit == 1

\* The script up to the call of analyze_content_with_llm.  Invocations are
\* told apart by the slot they run in: a new invocation takes the lowest
\* slot whose invocation is not running.
HookStart(h, git, fault) ==
    /\ steps < MaxSteps
    /\ hook[h].pc \in {"idle", "exited"}
    /\ \A g \in 1..(h - 1) : hook[g].pc = "busy"
    /\ LET r == init_database("commit", db["script_dir"], fault)
           info == get_git_info(git)
           fresh == HookIdle
       IN  /\ db' = [db EXCEPT !["script_dir"] = r.db]
           /\ hook' = [hook EXCEPT ![h] =
                IF r.exc # "none"
                THEN [fresh EXCEPT !.pc = "exited", !.exit = UncaughtExit,
                                   !.outcome = "raised", !.why = r.exc]
                ELSE IF info.diff.t # "str" \/ info.message.t # "str"
                THEN [fresh EXCEPT !.pc = "exited", !.exit = UncaughtExit,
                                   !.outcome = "raised",
                                   !.why = "AttributeError"]
                ELSE IF SkipCommit(info.diff, info.message)
                THEN [fresh EXCEPT !.pc = "exited", !.exit = 0, !.git = git,
                                   !.outcome = "skip", !.why = "empty"]
                ELSE [fresh EXCEPT !.pc = "busy", !.git = git, !.calls = 1]]
    /\ steps' = steps + 1
    /\ UNCHANGED <<watch, appends>>

\* The hook record when the process ends.
HookEnded(h, reply, code, outcome, why) ==
    [hook[h] EXCEPT !.pc = "exited", !.exit = code, !.status = reply.status,
                    !.outcome = outcome, !.why = why]

\* The rest of the script, from the return of analyze_content_with_llm.
HookFinish(h, reply, fault) ==
    /\ hook[h].pc = "busy"
    /\ \E a \in {Analysis[reply]} :
         IF a.exc # "none"
         THEN /\ hook' = [hook EXCEPT ![h] =
                    HookEnded(h, reply, UncaughtExit, "raised", a.exc)]
              /\ UNCHANGED <<db, appends>>
         ELSE IF ~Truthy(a.val)
         THEN /\ hook' = [hook EXCEPT ![h] =
                    HookEnded(h, reply, 0, "dropped", a.val.t)]
              /\ UNCHANGED <<db, appends>>
         ELSE \E s \in {save_expertise("commit", db["script_dir"], User, Repo,
                                      a.val, fault)} :
                /\ db' = [db EXCEPT !["script_dir"] = s.db]
                /\ IF s.exc # "none"
                   THEN /\ hook' = [hook EXCEPT ![h] =
                              [HookEnded(h, reply, UncaughtExit, "raised", s.exc)
                                 EXCEPT !.saves = 1]]
                        /\ UNCHANGED appends
                   ELSE /\ hook' = [hook EXCEPT ![h] =
                              [HookEnded(h, reply, 0, "saved", "none")
                                 EXCEPT !.saves = 1, !.appended = TRUE]]
                        /\ appends' = appends + 1
    /\ UNCHANGED <<watch, steps>>

\* The steps of the system.  A guard written in front of the quantifiers
\* repeats the guard of the action behind them, so that the inputs are
\* enumerated only in the states where the action can happen.
Next ==
    \/ /\ steps < MaxSteps
       /\ watch.pc \in {"off", "stopped", "crashed"}
       /\ \E prog \in Watchers : \E file \in DbFilesOf(prog) :
            \E fault \in BOOLEAN : WatchStart(prog, file, fault)
    \/ /\ steps < MaxSteps
       /\ watch.pc = "idle"
       /\ \E ev \in Events : OnModifiedBegin(ev)
    \/ /\ watch.pc = "busy"
       /\ \E reply \in Replies : \E login \in BOOLEAN : \E fault \in BOOLEAN :
            OnModifiedEnd(reply, login, fault)
    \/ Interrupt
    \/ WatchExit
    \/ /\ steps < MaxSteps
       /\ \E h \in Hooks :
            /\ hook[h].pc \in {"idle", "exited"}
            /\ \E git \in GitInfos : \E fault \in BOOLEAN :
                 HookStart(h, git, fault)
    \/ \E h \in Hooks :
         /\ hook[h].pc = "busy"
         /\ \E reply \in Replies : \E fault \in BOOLEAN :
              HookFinish(h, reply, fault)

Spec == Init /\ [][Next]_vars

(***************************************************************************)
(* Properties.                                                             *)
(***************************************************************************)
Rows(f) == db[f].rows
TotalRows == Len(Rows("script_dir")) + Len(Rows("cwd"))
StoreUnchanged == \A f \in DbFiles : db'[f] = db[f]
RowsUnchanged ==
    \A f \in DbFiles : db'[f].rows = db[f].rows /\ db'[f].seq = db[f].seq

\* Every token of the text is whitespace.
AllWhitespace(text) == \A i \in 1..Len(text) : text[i] \in Whitespace

\* The event of record r ended in an analysis failure: the backend was
\* unreachable, answered 500, timed out, or sent a payload that is no JSON.
AnalysisFailed(r) ==
    \/ r.status \in {"refused", "500", "timeout"}
    \/ r.status = "200" /\ r.why = "JSONDecodeError"

\* This step ends the watch handler's analysis; this step ends hook h's.
WatchEnds == watch.pc = "busy" /\ watch'.pc # "busy"
HookEnds(h) == hook[h].pc = "busy" /\ hook'[h].pc = "exited"

\* This step delivers a filesystem event; this step starts hook h.
WatchDelivers == watch.pc = "idle" /\ steps' = steps + 1 /\ hook' = hook
HookStarts(h) ==
    /\ hook[h].pc # "busy"
    /\ steps' = steps + 1
    /\ watch' = watch
    /\ \A g \in Hooks \ {h} : hook'[g] = hook[g]

\* This step starts the watch process.
WatchStarts == watch.pc \in {"off", "stopped", "crashed"} /\ steps' = steps + 1

\* C1: an analysis failure (backend unreachable, HTTP 500, timeout, payload
\* that is not JSON) leaves the store as it was, and in watch mode the
\* handler returns, so the observer goes on to the next event.
C1_FailureDropsEvent ==
    [][/\ (WatchEnds /\ AnalysisFailed(watch'))
          => (StoreUnchanged /\ appends' = appends /\ watch'.pc = "idle")
       /\ \A h \in Hooks :
            (HookEnds(h) /\ AnalysisFailed(hook'[h]))
            => (StoreUnchanged /\ appends' = appends)]_vars

C1_Witness ==
    /\ watch.pc = "idle"
    /\ watch.status = "200"
    /\ watch.why = "JSONDecodeError"
    /\ TotalRows > 0

\* C2: in one-shot mode the process exits with code 0 on every analysis
\* outcome (success, unreachable, non-2xx, timeout, payload that is not
\* JSON or not a JSON object).  Runs whose insert fails are left aside.
C2_ExitZeroOnEveryOutcome ==
    \A h \in Hooks :
        (/\ hook[h].pc = "exited"
         /\ hook[h].status # "none"
         /\ (hook[h].saves = 0 \/ hook[h].appended))
        => hook[h].exit = 0

\* C3: in one-shot mode, when get_git_info or init_database fails, no
\* analysis is attempted, no record is appended and the exit code is 0.
C3_StartFailureExitsZero ==
    \A h \in Hooks :
        (hook[h].pc = "exited" /\ hook[h].outcome = "raised" /\ hook[h].calls = 0)
        => (hook[h].saves = 0 /\ ~hook[h].appended /\ hook[h].exit = 0)

\* The events whose normalisation ends in a skip: a file whose base name
\* starts with ".", or whose content is nothing but whitespace.
SkipEvent(ev) ==
    \/ Hidden(ev.name)
    \/ ev.readable /\ AllWhitespace(ev.text)

\* The commits whose normalisation ends in a skip: the staged diff or the
\* commit message is nothing but whitespace.
SkipGit(git) ==
    git.ok /\ (AllWhitespace(git.diff) \/ AllWhitespace(git.message))

\* C4: save_expertise is called at most once per event and never for an
\* event whose normalisation ends in a skip (empty content, hidden file,
\* empty diff or message); the number of records equals the number of
\* appends that succeeded.
C4_AppendAtMostOnce ==
    /\ watch.saves <= 1
    /\ (watch.outcome = "skip" \/ SkipEvent(watch.ev))
         => (watch.saves = 0 /\ ~watch.appended)
    /\ watch.appended => watch.saves = 1
    /\ \A h \in Hooks :
         /\ hook[h].saves <= 1
         /\ (hook[h].outcome = "skip" \/ SkipGit(hook[h].git))
              => (hook[h].saves = 0 /\ ~hook[h].appended)
         /\ hook[h].appended => hook[h].saves = 1
    /\ TotalRows = appends

\* C5: in watch mode a directory event, or a file event whose content trims
\* to empty, calls the analyzer zero times and leaves the store unchanged.
C5_EmptyEventIsNoOp ==
    [][(/\ WatchDelivers
        /\ \/ watch'.ev.isDir
           \/ watch'.ev.readable /\ AllWhitespace(watch'.ev.text))
       => (/\ StoreUnchanged
           /\ appends' = appends
           /\ watch'.calls = 0
           /\ watch'.pc = "idle")]_vars

C5_Witness ==
    /\ watch.pc = "idle"
    /\ watch.outcome = "skip"
    /\ watch.why = "empty"
    /\ watch.ev.text # <<>>
    /\ Rows(watch.file) # <<>>

\* C6: in one-shot mode, if the staged diff or the commit message trims to
\* empty, the analyzer is not called, nothing is appended, the exit code is 0.
C6_EmptyCommitIsSkipped ==
    [][\A h \in Hooks :
         (/\ HookStarts(h)
          /\ hook'[h].git.ok
          /\ \/ AllWhitespace(hook'[h].git.diff)
             \/ AllWhitespace(hook'[h].git.message))
         => (/\ hook'[h].pc = "exited"
             /\ hook'[h].exit = 0
             /\ hook'[h].calls = 0
             /\ RowsUnchanged
             /\ appends' = appends)]_vars

C6_Witness ==
    \E h \in Hooks :
        /\ hook[h].pc = "exited"
        /\ hook[h].outcome = "skip"
        /\ ~AllWhitespace(hook[h].git.diff)
        /\ AllWhitespace(hook[h].git.message)

ListFields ==
    {"primary_technologies", "supporting_libraries",
     "key_patterns_and_concepts", "inferred_skills"}

SameValue(x, y) == x.t = y.t /\ x.v = y.v

IsStringList(x) ==
    x.t = "list" /\ \A i \in 1..Len(x.v) : x.v[i].t = "str"

\* An analysis with all five fields: four lists of strings and a string.
WellFormedFive(a) ==
    /\ a.t = "dict"
    /\ \A k \in ListFields : HasKey(a, Key(k)) /\ IsStringList(Get(a, Key(k), Null))
    /\ HasKey(a, Key("analysis_summary"))
    /\ Get(a, Key("analysis_summary"), Null).t = "str"

\* Column c of the row holds the JSON encoding of value x.
ReadsBackAs(row, c, x) ==
    /\ c \in DOMAIN row.cols
    /\ row.cols[c].t = "str"
    /\ JsonLoads(row.cols[c].v).ok
    /\ SameValue(JsonLoads(row.cols[c].v).val, x)

\* C7: for a well-formed five-field analysis, reading the appended record
\* back gives the same five fields, whichever producer appended it.
C7_FiveFieldRoundTrip ==
    \A f \in DbFiles : \A i \in 1..Len(Rows(f)) :
        WellFormedFive(Rows(f)[i].src)
        => /\ \A k \in ListFields :
                ReadsBackAs(Rows(f)[i], k, Get(Rows(f)[i].src, Key(k), Null))
           /\ "analysis_summary" \in DOMAIN Rows(f)[i].cols
           /\ SameValue(Rows(f)[i].cols["analysis_summary"],
                        Get(Rows(f)[i].src, Key("analysis_summary"), Null))

\* A legacy payload: technologies, core_concepts and summary.
IsLegacy(a) ==
    /\ a.t = "dict"
    /\ HasKey(a, Key("technologies"))
    /\ HasKey(a, Key("core_concepts"))
    /\ HasKey(a, Key("summary"))

\* C8: a legacy payload is stored in the canonical shape, with
\* primary_technologies = technologies and
\* key_patterns_and_concepts = core_concepts.
C8_LegacyMappedToCanonical ==
    \A f \in DbFiles : \A i \in 1..Len(Rows(f)) :
        IsLegacy(Rows(f)[i].src)
        => /\ ReadsBackAs(Rows(f)[i], "primary_technologies",
                          Get(Rows(f)[i].src, Key("technologies"), Null))
           /\ ReadsBackAs(Rows(f)[i], "key_patterns_and_concepts",
                          Get(Rows(f)[i].src, Key("core_concepts"), Null))

\* C9: init_database, called again on any store, leaves the records as they
\* were: every step that starts a process keeps rows and ids.
C9_InitIsIdempotent ==
    [][(WatchStarts \/ \E h \in Hooks : HookStarts(h)) => RowsUnchanged]_vars

\* A producer started on a store that held records and now waits for events.
C9_Witness ==
    /\ watch.hadRows
    /\ watch.pc = "idle"
    /\ watch.outcome = "none"

\* C10: the ids of the records of a store are 1, 2, ..., N in the order of
\* the appends: strictly increasing, without gaps, unique, whatever skipped
\* or failed events came in between.
C10_IdsDenseAndIncreasing ==
    \A f \in DbFiles : \A i \in 1..Len(Rows(f)) : Rows(f)[i].id = i

C10_Witness ==
    /\ Len(Rows("script_dir")) >= 2
    /\ steps > appends
    /\ \E h \in Hooks :
         hook[h].pc = "exited" /\ hook[h].outcome \in {"raised", "dropped", "skip"}

\* The exceptions the try block of analyze_content_with_llm raises on the
\* replies of the model.
BackendExceptions == {BackendCall(reply).exc : reply \in Replies} \ {"none"}

\* C11: analyze_content_with_llm never propagates an exception to its
\* caller: no event and no commit ends with an exception of the client's try
\* block (network failure, non-2xx status, timeout, payload that is not JSON).
C11_ClientNeverRaises ==
    /\ watch.outcome = "raised" => watch.why \notin BackendExceptions
    /\ \A h \in Hooks :
         hook[h].outcome = "raised" => hook[h].why \notin BackendExceptions

\* C12: in watch mode a file event whose base name starts with "." is
\* skipped by every watch-mode producer: the analyzer is not called and no
\* record is appended.
C12_HiddenFileIsSkipped ==
    [][(/\ WatchDelivers
        /\ ~watch'.ev.isDir
        /\ Hidden(watch'.ev.name))
       => (/\ watch'.calls = 0
           /\ watch'.pc = "idle"
           /\ StoreUnchanged
           /\ appends' = appends)]_vars

\* The columns of a table that hold an encoded list, and the one that holds
\* the summary.
ListColumns(schema) ==
    IF schema = "legacy" THEN {"technologies", "core_concepts"} ELSE ListFields

SummaryColumn(schema) ==
    IF schema = "legacy" THEN "summary" ELSE "analysis_summary"

\* Column c of the row holds the JSON encoding of a list.
HoldsList(row, c) ==
    /\ c \in DOMAIN row.cols
    /\ row.cols[c].t = "str"
    /\ JsonLoads(row.cols[c].v).ok
    /\ JsonLoads(row.cols[c].v).val.t = "list"

\* C13: every record has every list column stored as an encoded list and the
\* summary stored as a string, whatever the payload was: a list field that
\* is missing or null in the payload is stored as the empty list, and no
\* field outside the table's columns is stored.
C13_ListFieldsNeverNull ==
    \A f \in DbFiles : \A i \in 1..Len(Rows(f)) :
        /\ DOMAIN Rows(f)[i].cols \subseteq Columns(db[f].schema)
        /\ \A c \in ListColumns(db[f].schema) : HoldsList(Rows(f)[i], c)
        /\ SummaryColumn(db[f].schema) \in DOMAIN Rows(f)[i].cols
        /\ Rows(f)[i].cols[SummaryColumn(db[f].schema)].t = "str"
        /\ \A k \in ListFields \cap DOMAIN Rows(f)[i].cols :
              (\/ ~HasKey(Rows(f)[i].src, Key(k))
               \/ Get(Rows(f)[i].src, Key(k), Null).t = "null")
              => ReadsBackAs(Rows(f)[i], k, EmptyList)

\* The sqlite3 exceptions an INSERT raises.
StoreErrors == {"OperationalError", "ProgrammingError", "IntegrityError"}

\* C14: when the insert of save_expertise fails with a store error, nothing
\* of the record is written and the insert is not tried again; in watch mode
\* the handler returns and waits for the next event, in one-shot mode the
\* process exits with code 0.
C14_AppendFailureIsTolerated ==
    [][/\ (WatchEnds /\ watch'.saves = 1 /\ watch'.why \in StoreErrors)
          => (StoreUnchanged /\ appends' = appends /\ watch'.pc = "idle")
       /\ \A h \in Hooks :
            (HookEnds(h) /\ hook'[h].saves = 1 /\ hook'[h].why \in StoreErrors)
            => (StoreUnchanged /\ appends' = appends /\ hook'[h].exit = 0)]_vars

\* C15: in watch mode, when the stop signal arrives while an analysis is in
\* flight, the result of that analysis is discarded: the handler's end after
\* the stop signal appends no record.
C15_StopDiscardsInFlight ==
    [][(WatchEnds /\ watch.stop) => (StoreUnchanged /\ appends' = appends)]_vars

\* Sequence a is the beginning of sequence b.
IsPrefix(a, b) == Len(a) <= Len(b) /\ SubSeq(b, 1, Len(a)) = a

UniqueIds(rows) ==
    \A i, j \in 1..Len(rows) : i # j => rows[i].id # rows[j].id

\* C16: under every interleaving of one-shot invocations on the same store
\* file, an invocation that ends adds exactly one record if its append
\* succeeded and none otherwise, keeps every record that was there as it
\* was, and leaves no two records with the same id.
C16_ConcurrentAppendsAreSerialized ==
    [][\A h \in Hooks :
         HookEnds(h)
         => /\ Len(Rows("script_dir")') =
                 Len(Rows("script_dir")) + (IF hook'[h].appended THEN 1 ELSE 0)
            /\ IsPrefix(Rows("script_dir"), Rows("script_dir")')
            /\ UniqueIds(Rows("script_dir")')]_vars

\* Two invocations were in flight at the same time (the second slot is
\* taken only while the first runs, and no other process has started) and
\* both appended.
C16_Witness ==
    /\ \A h \in {1, 2} : hook[h].appended
    /\ steps = 2
    /\ Len(Rows("script_dir")) = 2

\* C17: the log is append-only: every step of the system, in either mode,
\* keeps every record of every store with its id and its field values, and
\* adds records only at the end.
C17_AppendOnly ==
    [][\A f \in DbFiles : IsPrefix(Rows(f), Rows(f)')]_vars

\* A store with a record went through the start of another producer and a
\* skipped event.
C17_Witness ==
    /\ watch.hadRows
    /\ watch.outcome = "skip"
    /\ Len(Rows(watch.file)) >= 1

\* C18: every event that reaches analysis makes exactly one analyzer call:
\* a delivered notification or a commit that gets to the analyzer starts
\* with its own single call, the end of the analysis (failed or not) leaves
\* it at one call and ends the handling, and an event that was saved has
\* added its own new record, also when the same path was saved before.
C18_AnalyzerCalledOnce ==
    [][/\ (WatchDelivers /\ watch'.pc = "busy") => watch'.calls = 1
       /\ WatchEnds
            => /\ watch'.calls = 1
               /\ watch'.outcome = "saved"
                    => /\ Len(Rows(watch.file)') = Len(Rows(watch.file)) + 1
                       /\ Rows(watch.file)'[Len(Rows(watch.file)')].cols.file_path.v
                            = watch.ev.name
       /\ \A h \in Hooks :
            /\ (HookStarts(h) /\ hook'[h].pc = "busy") => hook'[h].calls = 1
            /\ HookEnds(h)
                 => /\ hook'[h].calls = 1
                    /\ hook'[h].outcome = "saved"
                         => Len(Rows("script_dir")') = Len(Rows("script_dir")) + 1]_vars

\* The same path was saved twice with the same analysis: two records.
C18_Witness ==
    \E f \in DbFiles : \E i, j \in 1..Len(Rows(f)) :
        /\ i < j
        /\ Rows(f)[i].by \in Watchers
        /\ Rows(f)[i].cols = Rows(f)[j].cols

\* The replies that succeed at transport level and whose payload is the
\* empty JSON object, the default for an envelope without "response".
EmptyObjectReplies ==
    {reply \in Replies :
        /\ reply.status = "200"
        /\ Analysis[reply].exc = "none"
        /\ Analysis[reply].val = Dict(<<>>)}

\* C19: an analysis whose payload is the empty JSON object is treated as a
\* failed analysis: the step that ends it appends no record.
C19_EmptyObjectIsFailure ==
    [][\A reply \in EmptyObjectReplies :
         /\ (/\ WatchEnds
             /\ \E login \in BOOLEAN : \E fault \in BOOLEAN :
                  OnModifiedEnd(reply, login, fault))
            => (/\ StoreUnchanged
                /\ appends' = appends
                /\ watch'.saves = 0
                /\ watch'.outcome = "dropped")
         /\ \A h \in Hooks :
              (/\ HookEnds(h)
               /\ \E fault \in BOOLEAN : HookFinish(h, reply, fault))
              => (/\ StoreUnchanged
                  /\ appends' = appends
                  /\ hook'[h].saves = 0
                  /\ hook'[h].outcome = "dropped")]_vars

C19_Witness ==
    /\ watch.status = "200"
    /\ watch.outcome = "dropped"
    /\ watch.why = "dict"
    /\ \E h \in Hooks :
         /\ hook[h].status = "200"
         /\ hook[h].outcome = "dropped"
         /\ hook[h].why = "dict"
         /\ hook[h].exit = 0

\* The replies whose payload is a well-formed five-field analysis.
ValidReplies ==
    {reply \in Replies :
        Analysis[reply].exc = "none" /\ WellFormedFive(Analysis[reply].val)}

\* C20: once a producer's init_database has returned, its save_expertise of
\* a valid analysis succeeds when sqlite itself does not fail, whichever
\* producer created the table of the store file.
C20_SaveSucceedsAfterInit ==
    [][\A reply \in ValidReplies :
         /\ OnModifiedEnd(reply, TRUE, FALSE) => watch'.appended
         /\ \A h \in Hooks : HookFinish(h, reply, FALSE) => hook'[h].appended]_vars

=============================================================================
